---- MODULE Spec2Model ----
(***************************************************************************)
(* Verification model of the Finance-question-randomizer widgets:          *)
(*   - the "Spin to Win" prize wheel  (src/unnamed/part_001)               *)
(*   - the "Flappy Nature" easter-egg game (src/unnamed/part_002)          *)
(* Angles are measured in units of 1/TWO_PI of a full turn, times in       *)
(* animation ticks, eased values in units of 1/EaseScale.                  *)
(***************************************************************************)
EXTENDS Integers, Sequences, FiniteSets, TLC

\* ------------------------------------------------------------------------
\* Bounds of the model
\* ------------------------------------------------------------------------
MaxRoster == 3
MaxStored == 2
MaxRotation == 150
MaxFrameDelta == 2
MaxWheelRaf == 2
MaxSpinTimers == 1

\* ------------------------------------------------------------------------
\* Program constants of the wheel
\* ------------------------------------------------------------------------
TWO_PI == 24
POINTER_ANGLE == (3 * TWO_PI) \div 4
SpinDuration == 4
SpinMinRotations == 1
SpinExtraRots == 2
GlowDuration == 2
EaseDecayRate == 4
EaseScale == 2 ^ EaseDecayRate
WobbleThreshold == 2
WobbleFrequency == 1
WobbleGain == 8

AllNames == <<"A", "B", "C", "D", "E">>
StaleName == "Z"
TimeStrs == {"t1"}

Roster(n) == SubSeq(AllNames, 1, n)

Min(a, b) == IF a < b THEN a ELSE b

\* JavaScript's % : the remainder takes the sign of the dividend
JsMod(a, b) == IF a >= 0 THEN a % b ELSE -((-a) % b)

\* ------------------------------------------------------------------------
\* State of the wheel
\* ------------------------------------------------------------------------
VARIABLES names, slice, rotation, spinning, winnerIndex, glowAnimId,
          spinHistory, wheelStore, scriptAborted, fetchState, wheelRaf,
          spinTimers, DOM

wvars == <<names, slice, rotation, spinning, winnerIndex, glowAnimId,
           spinHistory, wheelStore, scriptAborted, fetchState, wheelRaf,
           spinTimers, DOM>>

\* ------------------------------------------------------------------------
\* State of the game
\* ------------------------------------------------------------------------
VARIABLES gameOpen, animating, heartAnim, overlayBuilt, overlayVisible, keydownBound,
          canvasBound, closeTimers, awaitingHeart, gameRaf, rafId, loadingRafId, now,
          state, hasPlayedOnce, settingsOpen, prevStateBeforePause,
          currentDifficulty, CFG, bestScores, bestStore, oldBestStore, diffStore,
          bird, pipePool, pipeActiveCount, score, lastPipeTime, deadTime,
          frameTime, accumulator, pausedTime,
          clouds, planePool, planeActiveCount, nextPlaneTime, bgLayers

lifecycle == <<gameOpen, animating, heartAnim, overlayBuilt, overlayVisible, keydownBound,
               canvasBound, closeTimers, awaitingHeart, gameRaf, rafId, loadingRafId, now>>
engine == <<state, hasPlayedOnce, settingsOpen, prevStateBeforePause>>
settings == <<currentDifficulty, CFG, diffStore>>
records == <<bestScores, bestStore, oldBestStore>>
physics == <<bird, pipePool, pipeActiveCount, score, lastPipeTime, deadTime>>
timing == <<frameTime, accumulator, pausedTime>>
scenery == <<clouds, planePool, planeActiveCount, nextPlaneTime, bgLayers>>

gvars == <<lifecycle, engine, settings, records, physics, timing, scenery>>

\* ------------------------------------------------------------------------
\* Inputs and results of the functions that are checked on their own
\* ------------------------------------------------------------------------
VARIABLES easeCase, runA, runB

hvars == <<easeCase, runA, runB>>

vars == <<wvars, gvars, hvars>>

\* ------------------------------------------------------------------------
\* localStorage item of the spin history: JSON text as a token sequence
\* ------------------------------------------------------------------------
Tok(k, n, t) == [tok |-> k, name |-> n, time |-> t]
LBr == Tok("[", "", "")
RBr == Tok("]", "", "")
Comma == Tok(",", "", "")
RecTok(h) == Tok("rec", h.name, h.time)

\* JSON.stringify(spinHistory)
JSONstringify(hist) ==
  LET n == Len(hist)
      L == IF n = 0 THEN 2 ELSE 2 * n + 1
  IN [i \in 1..L |-> IF i = 1 THEN LBr
                     ELSE IF i = L THEN RBr
                     ELSE IF i % 2 = 0 THEN RecTok(hist[i \div 2])
                     ELSE Comma]

\* does JSON.parse accept the text (an array of records) ?
JSONparses(text) ==
  LET L == Len(text)
  IN /\ L >= 2
     /\ text[1] = LBr
     /\ text[L] = RBr
     /\ \/ L = 2
        \/ /\ L % 2 = 1
           /\ \A i \in 2..(L - 1) :
                IF i % 2 = 0 THEN text[i].tok = "rec" ELSE text[i] = Comma

\* JSON.parse(text) for an accepted text
JSONparse(text) ==
  [i \in 1..((Len(text) - 1) \div 2) |->
      [name |-> text[2 * i].name, time |-> text[2 * i].time]]

NoItem == [has |-> FALSE, text |-> <<>>]
Item(text) == [has |-> TRUE, text |-> text]

\* localStorage.getItem(key) || '[]'
StoredText(item) == IF item.has /\ item.text # <<>> THEN item.text ELSE <<LBr, RBr>>

StoredNames == {AllNames[1], AllNames[2], StaleName}

RECURSIVE SeqsUpTo(_, _)
SeqsUpTo(S, n) ==
  IF n = 0 THEN {<<>>}
  ELSE LET shorter == SeqsUpTo(S, n - 1)
       IN shorter \cup {Append(s, x) : s \in {t \in shorter : Len(t) = n - 1}, x \in S}

StoredHistories ==
  {[i \in 1..Len(s) |-> [name |-> s[i], time |-> "t0"]] : s \in SeqsUpTo(StoredNames, MaxStored)}

CorruptTexts == {<<LBr>>, <<LBr, RecTok([name |-> AllNames[1], time |-> "t0"]), Comma, RBr>>}

StoredItems == {NoItem} \cup {Item(JSONstringify(h)) : h \in StoredHistories}
                        \cup {Item(t) : t \in CorruptTexts}

\* ------------------------------------------------------------------------
\* requestAnimationFrame queue of the wheel page
\* ------------------------------------------------------------------------
NoCb == [fn |-> "none", target |-> 0, winnerIdx |-> 0, winnerName |-> "",
         startRotation |-> 0, totalDelta |-> 0, elapsed |-> 0]

AnimateCb(target, idx, name, start) ==
  [fn |-> "animate", target |-> target, winnerIdx |-> idx, winnerName |-> name,
   startRotation |-> start, totalDelta |-> target - start, elapsed |-> 0]

TickCb(e) == [NoCb EXCEPT !.fn = "tick", !.elapsed = e]

FreeIds(raf) == {i \in DOMAIN raf : raf[i].fn = "none"}
NewId(raf) == CHOOSE i \in FreeIds(raf) : \A j \in FreeIds(raf) : i <= j

\* ------------------------------------------------------------------------
\* Helpers
\* ------------------------------------------------------------------------
isNamePicked(hist, name) == \E i \in 1..Len(hist) : hist[i].name = name

RECURSIVE Filter(_, _)
Filter(s, hist) ==
  IF s = <<>> THEN <<>>
  ELSE IF isNamePicked(hist, Head(s)) THEN Filter(Tail(s), hist)
       ELSE <<Head(s)>> \o Filter(Tail(s), hist)

\* faulty variant: the picked names are not filtered out
getAvailable_noFilter(ns, hist) == ns

getAvailable(ns, hist) == Filter(ns, hist)

\* names.indexOf(name), 0-based, -1 when absent
indexOf(ns, name) ==
  IF \E i \in 1..Len(ns) : ns[i] = name
  THEN (CHOOSE i \in 1..Len(ns) : ns[i] = name /\ \A j \in 1..(i - 1) : ns[j] # name) - 1
  ELSE -1

\* Math.sin at multiples of a quarter turn
SinQ(q) == LET r == q % 4 IN IF r = 1 THEN 1 ELSE IF r = 3 THEN -1 ELSE 0

\* the easing tokens of the style sheet; wobbleGain is wobbleIntensity * wobbleDamping
TOKENS == [easeDecayRate |-> EaseDecayRate, wobbleThreshold |-> WobbleThreshold,
           wobbleFrequency |-> WobbleFrequency, wobbleGain |-> WobbleGain]

\* easeOutExpoWobble(t) * EaseScale under the tokens tok, with t = e / SpinDuration
easeOutExpoWobbleWith(tok, e) ==
  IF e >= SpinDuration THEN EaseScale
  ELSE LET base == EaseScale - EaseScale \div (2 ^ ((tok.easeDecayRate * e) \div SpinDuration))
       IN IF e <= tok.wobbleThreshold THEN base
          ELSE LET tail == e - tok.wobbleThreshold
                   wobble == (SinQ(tail * tok.wobbleFrequency) * tok.wobbleGain
                                * (SpinDuration - e)) \div SpinDuration
               IN base + wobble

easeOutExpoWobble(e) == easeOutExpoWobbleWith(TOKENS, e)

\* ------------------------------------------------------------------------
\* Status line and the all-picked notice
\* ------------------------------------------------------------------------
Badge(t, a, n) == [text |-> t, a |-> a, n |-> n]

\* faulty variant: the notice is shown but the spin button stays enabled
showAllPicked_noDisable(d) == [d EXCEPT !.allPickedHidden = FALSE]

showAllPicked(d) == [d EXCEPT !.allPickedHidden = FALSE, !.spinBtnDisabled = TRUE]

hideAllPicked(d) == [d EXCEPT !.allPickedHidden = TRUE, !.spinBtnDisabled = FALSE]

updateStatus(d, ns, hist) ==
  LET available == getAvailable(ns, hist)
  IN IF Len(ns) = 0 THEN [d EXCEPT !.statusBadge = Badge("Loading...", 0, 0)]
     ELSE IF Len(available) = 0
          THEN showAllPicked([d EXCEPT !.statusBadge = Badge("All picked", 0, Len(ns))])
          ELSE hideAllPicked([d EXCEPT !.statusBadge = Badge("remaining", Len(available), Len(ns))])

showWinner(d, name) == [d EXCEPT !.winnerName = name, !.overlayHidden = FALSE]

\* faulty variant: the glow callback is not cancelled
stopGlowAnim_noCancel(raf, id) == raf

\* wheelRaf after stopGlowAnim()
stopGlowAnim(raf, id) == IF id # 0 THEN [raf EXCEPT ![id] = NoCb] ELSE raf

\* ------------------------------------------------------------------------
\* Initial state: the script has run to its end, or was aborted by the
\* exception of JSON.parse at the declaration of spinHistory
\* ------------------------------------------------------------------------
InitDOM == [spinBtnDisabled |-> FALSE, allPickedHidden |-> TRUE, overlayHidden |-> TRUE,
            winnerName |-> "", statusBadge |-> Badge("", 0, 0)]

InitWheelFrom(items) ==
  /\ wheelStore \in items
  /\ scriptAborted = ~JSONparses(StoredText(wheelStore))
  /\ spinHistory = IF scriptAborted THEN <<>> ELSE JSONparse(StoredText(wheelStore))
  /\ fetchState = IF scriptAborted THEN "none" ELSE "pending"
  /\ names = <<>>
  /\ slice = 0
  /\ rotation = 0
  /\ spinning = FALSE
  /\ winnerIndex = -1
  /\ glowAnimId = 0
  /\ wheelRaf = [i \in 1..MaxWheelRaf |-> NoCb]
  /\ spinTimers = 0
  /\ DOM = InitDOM

InitWheel == InitWheelFrom(StoredItems)

\* ------------------------------------------------------------------------
\* fetch('data/team.json')
\* ------------------------------------------------------------------------
FetchResolve ==
  /\ fetchState = "pending"
  /\ \E n \in 1..MaxRoster :
       /\ names' = Roster(n)
       /\ slice' = TWO_PI \div n
       /\ DOM' = updateStatus(DOM, Roster(n), spinHistory)
  /\ fetchState' = "done"
  /\ UNCHANGED <<rotation, spinning, winnerIndex, glowAnimId, spinHistory, wheelStore,
                 scriptAborted, wheelRaf, spinTimers>>
  /\ UNCHANGED <<gvars, hvars>>

FetchFail ==
  /\ fetchState = "pending"
  /\ fetchState' = "failed"
  /\ UNCHANGED <<names, slice, rotation, spinning, winnerIndex, glowAnimId, spinHistory,
                 wheelStore, scriptAborted, wheelRaf, spinTimers, DOM>>
  /\ UNCHANGED <<gvars, hvars>>

\* ------------------------------------------------------------------------
\* spin()
\* ------------------------------------------------------------------------
\* faulty variant: the current rotation is not reduced to one turn
spinTarget_notReduced(rot, winnerSliceCenter, fullSpins) ==
  LET extraAngle == JsMod(POINTER_ANGLE - winnerSliceCenter + TWO_PI * 20, TWO_PI)
  IN rot + fullSpins * TWO_PI + extraAngle

\* the target rotation of spin()
spinTarget(rot, winnerSliceCenter, fullSpins) ==
  LET extraAngle == JsMod(POINTER_ANGLE - winnerSliceCenter
                            - JsMod(rot, TWO_PI) + TWO_PI * 20, TWO_PI)
  IN rot + fullSpins * TWO_PI + extraAngle

\* spin() past its re-entrancy check
spinIdle ==
  LET available == getAvailable(names, spinHistory)
  IN IF Len(available) = 0
     THEN /\ DOM' = showAllPicked(DOM)
          /\ UNCHANGED <<spinning, winnerIndex, glowAnimId, wheelRaf>>
     ELSE \E k \in 1..Len(available), x \in 0..(SpinExtraRots - 1) :
            LET winnerName == available[k]
                winnerIdx == indexOf(names, winnerName)
                winnerSliceCenter == winnerIdx * slice + slice \div 2
                fullSpins == SpinMinRotations + x
                target == spinTarget(rotation, winnerSliceCenter, fullSpins)
                raf1 == stopGlowAnim(wheelRaf, glowAnimId)
            IN /\ FreeIds(raf1) # {}
               /\ spinning' = TRUE
               /\ winnerIndex' = -1
               /\ glowAnimId' = 0
               /\ DOM' = [DOM EXCEPT !.spinBtnDisabled = TRUE]
               /\ wheelRaf' = [raf1 EXCEPT ![NewId(raf1)] =
                                 AnimateCb(target, winnerIdx, winnerName, rotation)]

\* faulty variant: the re-entrancy check is missing
spin_noBusyCheck == spinIdle

spin ==
  IF spinning THEN UNCHANGED <<spinning, winnerIndex, glowAnimId, wheelRaf, DOM>>
  ELSE spinIdle

\* click on the spin button
SpinClick ==
  /\ ~DOM.spinBtnDisabled
  /\ rotation < MaxRotation
  /\ spin
  /\ UNCHANGED <<names, slice, rotation, spinHistory, wheelStore, scriptAborted,
                 fetchState, spinTimers>>
  /\ UNCHANGED <<gvars, hvars>>

closeOverlay(d) == [d EXCEPT !.overlayHidden = TRUE]

\* click on the close button of the winner overlay
CloseOverlayClick ==
  /\ ~DOM.overlayHidden
  /\ DOM' = closeOverlay(DOM)
  /\ UNCHANGED <<names, slice, rotation, spinning, winnerIndex, glowAnimId, spinHistory,
                 wheelStore, scriptAborted, fetchState, wheelRaf, spinTimers>>
  /\ UNCHANGED <<gvars, hvars>>

closeOverlayAndSpin ==
  /\ ~DOM.overlayHidden
  /\ spinTimers < MaxSpinTimers
  /\ DOM' = closeOverlay(DOM)
  /\ spinTimers' = spinTimers + 1
  /\ UNCHANGED <<names, slice, rotation, spinning, winnerIndex, glowAnimId, spinHistory,
                 wheelStore, scriptAborted, fetchState, wheelRaf>>
  /\ UNCHANGED <<gvars, hvars>>

\* the timer of closeOverlayAndSpin fires
SpinTimerFire ==
  /\ spinTimers > 0
  /\ rotation < MaxRotation
  /\ spinTimers' = spinTimers - 1
  /\ spin
  /\ UNCHANGED <<names, slice, rotation, spinHistory, wheelStore, scriptAborted, fetchState>>
  /\ UNCHANGED <<gvars, hvars>>

\* ------------------------------------------------------------------------
\* spin.animate, onSpinComplete, addToHistory, startGlowAnim
\* ------------------------------------------------------------------------
\* faulty variant: the winner is not recorded
addToHistory_noPush(hist, name, ts) == hist

addToHistory(hist, name, ts) == Append(hist, [name |-> name, time |-> ts])

onSpinComplete(id, cb) ==
  \E ts \in TimeStrs :
    LET hist1 == addToHistory(spinHistory, cb.winnerName, ts)
        raf1 == [wheelRaf EXCEPT ![id] = NoCb]
        d1 == [DOM EXCEPT !.spinBtnDisabled = FALSE]
        d2 == showWinner(d1, cb.winnerName)
    IN /\ rotation' = cb.target
       /\ winnerIndex' = cb.winnerIdx
       /\ spinning' = FALSE
       /\ spinHistory' = hist1
       /\ wheelStore' = Item(JSONstringify(hist1))
       /\ glowAnimId' = NewId(raf1)
       /\ wheelRaf' = [raf1 EXCEPT ![NewId(raf1)] = TickCb(0)]
       /\ DOM' = updateStatus(d2, names, hist1)

animate(id) ==
  /\ wheelRaf[id].fn = "animate"
  /\ \E d \in 1..MaxFrameDelta :
       LET cb == wheelRaf[id]
           e == Min(cb.elapsed + d, SpinDuration)
       IN IF e < SpinDuration
          THEN /\ rotation' = cb.startRotation
                                + (cb.totalDelta * easeOutExpoWobble(e)) \div EaseScale
               /\ wheelRaf' = [wheelRaf EXCEPT ![id] = [cb EXCEPT !.elapsed = e]]
               /\ UNCHANGED <<spinning, winnerIndex, glowAnimId, spinHistory, wheelStore, DOM>>
          ELSE onSpinComplete(id, cb)
  /\ UNCHANGED <<names, slice, scriptAborted, fetchState, spinTimers>>

AnimateFrame == (\E id \in DOMAIN wheelRaf : animate(id)) /\ UNCHANGED <<gvars, hvars>>

\* startGlowAnim.tick
tick(id) ==
  /\ wheelRaf[id].fn = "tick"
  /\ \E d \in 1..MaxFrameDelta :
       LET e == Min(wheelRaf[id].elapsed + d, GlowDuration)
       IN IF winnerIndex >= 0 /\ ~spinning /\ e < GlowDuration
          THEN /\ glowAnimId' = id
               /\ wheelRaf' = [wheelRaf EXCEPT ![id] = TickCb(e)]
          ELSE /\ glowAnimId' = 0
               /\ wheelRaf' = [wheelRaf EXCEPT ![id] = NoCb]
  /\ UNCHANGED <<names, slice, rotation, spinning, winnerIndex, spinHistory, wheelStore,
                 scriptAborted, fetchState, spinTimers, DOM>>

GlowFrame == (\E id \in DOMAIN wheelRaf : tick(id)) /\ UNCHANGED <<gvars, hvars>>

\* ------------------------------------------------------------------------
\* clearHistory()
\* ------------------------------------------------------------------------
\* faulty variant: the stored history is not removed
clearHistory_keepStorage ==
  /\ ~scriptAborted
  /\ spinHistory' = <<>>
  /\ winnerIndex' = -1
  /\ wheelRaf' = stopGlowAnim(wheelRaf, glowAnimId)
  /\ glowAnimId' = 0
  /\ DOM' = updateStatus(DOM, names, <<>>)
  /\ UNCHANGED <<names, slice, rotation, spinning, wheelStore, scriptAborted, fetchState,
                 spinTimers>>

clearHistory ==
  /\ ~scriptAborted
  /\ spinHistory' = <<>>
  /\ wheelStore' = NoItem
  /\ winnerIndex' = -1
  /\ wheelRaf' = stopGlowAnim(wheelRaf, glowAnimId)
  /\ glowAnimId' = 0
  /\ DOM' = updateStatus(DOM, names, <<>>)
  /\ UNCHANGED <<names, slice, rotation, spinning, scriptAborted, fetchState, spinTimers>>

\* click on the clear button of the history view
ClearHistoryClick == clearHistory /\ UNCHANGED <<gvars, hvars>>

\* ========================================================================
\* The game (src/unnamed/part_002)
\* Lengths are in model pixels, times in units of half a physics tick.
\* ========================================================================
MaxGameRaf == 3
MaxAwait == 2
MaxCloseTimers == 2
\* the clock stops at MaxNow before the first flap, at MaxPlayNow after it
MaxNow == 3
MaxPlayNow == 16
MaxGameDelta == 2
\* performance.now() when a session with the picker starts
PlayStart == 10

TICK_MS == 2
MAX_TICKS == 4
FrameDeltas == 1..MaxGameDelta

PipePoolSize == 2
PlanePoolSize == 3
MaxPlanes == 2
StartLift == 2
MinTopMargin == 2
CloudWrapPad == 1
\* x of a plane is in thirds of a pixel: ambientMul is 3/3 in play, 1/3 otherwise
PlaneUnit == 3
AmbientPlay == 3
AmbientIdle == 1
PlaneStart == 2
PlaneExit == 3
PlaneRespawn == 40
DecoLeft == 1
DecoGap == 5
\* Math.random() takes RandScale values k / RandScale
RandScale == 2

DIFF_KEYS == <<"easy", "normal", "hard">>
DiffKeySet == {DIFF_KEYS[i] : i \in 1..Len(DIFF_KEYS)}

\* physics presets
DIFFICULTY ==
  [easy   |-> [gravity |-> 1, flapForce |-> -2, terminalVel |-> 2, pipeGap |-> 6,
               pipeSpeed |-> 3, pipeSpawn |-> 2, hitboxPad |-> 1],
   normal |-> [gravity |-> 1, flapForce |-> -2, terminalVel |-> 3, pipeGap |-> 5,
               pipeSpeed |-> 4, pipeSpawn |-> 1, hitboxPad |-> 1],
   hard   |-> [gravity |-> 2, flapForce |-> -3, terminalVel |-> 4, pipeGap |-> 4,
               pipeSpeed |-> 5, pipeSpawn |-> 1, hitboxPad |-> 0]]

PresetFields == {"gravity", "flapForce", "terminalVel", "pipeGap", "pipeSpeed", "pipeSpawn",
                 "hitboxPad"}

InitCFG == [width |-> 9, height |-> 14,
            gravity |-> 1, flapForce |-> -2, terminalVel |-> 3, pipeWidth |-> 4,
            pipeGap |-> 5, pipeSpeed |-> 4, pipeSpawn |-> 1, hitboxPad |-> 1,
            groundH |-> 2, birdSize |-> 3, birdX |-> 6, cloudCount |-> 1, resetDelay |-> 2]

Max(a, b) == IF a > b THEN a ELSE b

\* the value of a one-element set: The({e(v) : v \in {x}}) computes x once
The(S) == CHOOSE r \in S : TRUE

\* ------------------------------------------------------------------------
\* localStorage items of the game
\* ------------------------------------------------------------------------
BTok(k, key, ty, n) == [tok |-> k, key |-> key, type |-> ty, n |-> n]
LBrace == BTok("{", "", "", 0)
RBrace == BTok("}", "", "", 0)
BComma == BTok(",", "", "", 0)
BNull == BTok("null", "", "", 0)
KV(key, ty, n) == BTok("kv", key, ty, n)

\* JSON.stringify(bestScores)
BestStringify(bs) ==
  <<LBrace, KV("easy", "number", bs["easy"]), BComma, KV("normal", "number", bs["normal"]),
    BComma, KV("hard", "number", bs["hard"]), RBrace>>

\* does JSON.parse accept the text (an object of key/value pairs, or null) ?
BestParses(text) ==
  LET L == Len(text)
  IN \/ text = <<BNull>>
     \/ /\ L >= 2
        /\ text[1] = LBrace
        /\ text[L] = RBrace
        /\ \/ L = 2
           \/ /\ L % 2 = 1
              /\ \A i \in 2..(L - 1) :
                   IF i % 2 = 0 THEN text[i].tok = "kv" ELSE text[i] = BComma

\* typeof parsed[k] === 'number' && parsed[k] > 0 ? parsed[k] : (default) 0
BestField(text, k) ==
  LET idx == {i \in 1..Len(text) : text[i].tok = "kv" /\ text[i].key = k}
  IN IF idx = {} THEN 0
     ELSE LET last == CHOOSE i \in idx : \A j \in idx : j <= i
          IN IF text[last].type = "number" /\ text[last].n > 0 THEN text[last].n ELSE 0

NoBest == [has |-> FALSE, text |-> <<>>]
BestItem(text) == [has |-> TRUE, text |-> text]

NoOld == [has |-> FALSE, int |-> FALSE, n |-> 0]
OldItem(isInt, n) == [has |-> TRUE, int |-> isInt, n |-> n]

\* parseInt(text || '0', 10); NaN is rendered as 0, both fail the test old > 0
ParseIntOld(item) == IF item.has /\ item.int THEN item.n ELSE 0

NoDiff == [has |-> FALSE, key |-> ""]
DiffItem(k) == [has |-> TRUE, key |-> k]

ZeroBest == [k \in DiffKeySet |-> 0]

\* loadBestScores(): the scores and the two storage items after it
loadBestScores(best, old) ==
  IF best.has /\ best.text # <<>>
  THEN IF ~BestParses(best.text) \/ best.text = <<BNull>>
       THEN [scores |-> ZeroBest, best |-> best, old |-> old]
       ELSE [scores |-> [k \in DiffKeySet |-> BestField(best.text, k)],
             best |-> best, old |-> old]
  ELSE IF ParseIntOld(old) > 0
       THEN LET bs == [ZeroBest EXCEPT !["normal"] = ParseIntOld(old)]
            IN [scores |-> bs, best |-> BestItem(BestStringify(bs)), old |-> NoOld]
       ELSE [scores |-> ZeroBest, best |-> best, old |-> old]

BestItems ==
  {NoBest,
   BestItem(<<LBrace>>),
   BestItem(<<BNull>>),
   BestItem(<<LBrace, KV("easy", "number", 2), BComma, KV("normal", "number", 0), BComma,
              KV("hard", "string", 0), RBrace>>),
   BestItem(<<LBrace, KV("normal", "number", 1), RBrace>>)}

OldItems == {NoOld, OldItem(TRUE, 3), OldItem(FALSE, 0)}

DiffItems == {NoDiff, DiffItem("hard"), DiffItem("bogus")}

\* ------------------------------------------------------------------------
\* requestAnimationFrame queue of the game page
\* ------------------------------------------------------------------------
GameFreeIds(raf) == {i \in DOMAIN raf : raf[i] = "none"}
GameNewId(raf) == CHOOSE i \in GameFreeIds(raf) : \A j \in GameFreeIds(raf) : i <= j
PendingFrames == {i \in DOMAIN gameRaf : gameRaf[i] # "none"}

\* ------------------------------------------------------------------------
\* The world that update(), die(), flap() and the picker read and write
\* ------------------------------------------------------------------------
World ==
  [state |-> state, bird |-> bird, pipePool |-> pipePool,
   pipeActiveCount |-> pipeActiveCount, score |-> score, lastPipeTime |-> lastPipeTime,
   deadTime |-> deadTime, bestScores |-> bestScores, bestStore |-> bestStore,
   clouds |-> clouds, planePool |-> planePool, planeActiveCount |-> planeActiveCount,
   nextPlaneTime |-> nextPlaneTime, bgLayers |-> bgLayers]

SetWorld(w) ==
  /\ state' = w.state
  /\ bird' = w.bird
  /\ pipePool' = w.pipePool
  /\ pipeActiveCount' = w.pipeActiveCount
  /\ score' = w.score
  /\ lastPipeTime' = w.lastPipeTime
  /\ deadTime' = w.deadTime
  /\ bestScores' = w.bestScores
  /\ bestStore' = w.bestStore
  /\ clouds' = w.clouds
  /\ planePool' = w.planePool
  /\ planeActiveCount' = w.planeActiveCount
  /\ nextPlaneTime' = w.nextPlaneTime
  /\ bgLayers' = w.bgLayers

\* the values of Math.random() drawn in one frame: the gap of a spawned pipe
\* and the direction of a spawned plane
PlaneDirs == {1}
Randoms == [top : 0..(RandScale - 1), dir : PlaneDirs]

\* the pools keep their objects; id names the object of a slot
NewPipePool == [i \in 1..PipePoolSize |-> [id |-> i, x |-> 0, topH |-> 0, scored |-> FALSE]]
NewPlanePool == [i \in 1..PlanePoolSize |-> [x |-> 0, dir |-> 1]]
NewClouds == <<[x |-> 1, w |-> 2, speed |-> 1]>>
NewBgLayers == [groundDeco |-> <<[x |-> 2]>>, maxRightGroundDeco |-> 2]

\* pool with the objects of slots i and j exchanged
Swap(pool, i, j) == [pool EXCEPT ![i] = pool[j], ![j] = pool[i]]

\* faulty variant: the score of the run survives the reset
resetGameState_keepScore(w, cfg) ==
  [w EXCEPT !.bird = [y |-> cfg.height \div 2 - StartLift, vy |-> 0],
            !.pipeActiveCount = 0, !.state = "idle", !.lastPipeTime = 0, !.deadTime = 0]

resetGameState(w, cfg) ==
  [w EXCEPT !.bird = [y |-> cfg.height \div 2 - StartLift, vy |-> 0],
            !.pipeActiveCount = 0, !.score = 0, !.state = "idle",
            !.lastPipeTime = 0, !.deadTime = 0]

\* faulty variant: the score of every run is recorded as the best
die_alwaysRecord(w, diff, t) ==
  LET w1 == [w EXCEPT !.state = "dead", !.deadTime = t]
  IN IF diff \in DiffKeySet
     THEN LET bs == [w.bestScores EXCEPT ![diff] = w.score]
          IN [w1 EXCEPT !.bestScores = bs, !.bestStore = BestItem(BestStringify(bs))]
     ELSE w1

\* die() at time t
die(w, diff, t) ==
  LET w1 == [w EXCEPT !.state = "dead", !.deadTime = t]
  IN IF diff \in DiffKeySet /\ w.score > w.bestScores[diff]
     THEN LET bs == [w.bestScores EXCEPT ![diff] = w.score]
          IN [w1 EXCEPT !.bestScores = bs, !.bestStore = BestItem(BestStringify(bs))]
     ELSE w1

\* faulty variant: a dead run restarts without waiting for resetDelay
flap_noDelay(w, cfg, t) ==
  IF w.state = "paused" THEN w
  ELSE IF w.state = "idle"
       THEN [w EXCEPT !.state = "play", !.bird.vy = cfg.flapForce, !.lastPipeTime = t]
  ELSE IF w.state = "play" THEN [w EXCEPT !.bird.vy = cfg.flapForce]
  ELSE The({[w1 EXCEPT !.state = "play", !.bird.vy = cfg.flapForce, !.lastPipeTime = t] :
              w1 \in {resetGameState(w, cfg)}})

\* flap() at time t
flap(w, cfg, t) ==
  IF w.state = "paused" THEN w
  ELSE IF w.state = "idle"
       THEN [w EXCEPT !.state = "play", !.bird.vy = cfg.flapForce, !.lastPipeTime = t]
  ELSE IF w.state = "play" THEN [w EXCEPT !.bird.vy = cfg.flapForce]
  ELSE IF w.state = "dead" /\ t - w.deadTime > cfg.resetDelay
       THEN The({[w1 EXCEPT !.state = "play", !.bird.vy = cfg.flapForce, !.lastPipeTime = t] :
                   w1 \in {resetGameState(w, cfg)}})
  ELSE w

\* ------------------------------------------------------------------------
\* update(dt, now) with dt = FIXED_DT = 1
\* ------------------------------------------------------------------------
\* clouds always drift
moveClouds(cs, cfg) ==
  [i \in DOMAIN cs |->
     LET x == cs[i].x - cs[i].speed
     IN IF x + cs[i].w < 0 THEN [cs[i] EXCEPT !.x = cfg.width + CloudWrapPad]
        ELSE [cs[i] EXCEPT !.x = x]]

\* the loop over the active planes, from slot i down to the first
RECURSIVE movePlanes(_, _, _, _)
movePlanes(w, i, cfg, isPlaying) ==
  IF i < 1 THEN w
  ELSE LET p == w.planePool[i]
           x == p.x + p.dir * cfg.pipeSpeed * (IF isPlaying THEN AmbientPlay ELSE AmbientIdle)
           moved == [w.planePool EXCEPT ![i].x = x]
           gone == \/ p.dir > 0 /\ x > (cfg.width + PlaneExit) * PlaneUnit
                   \/ p.dir < 0 /\ x < (-PlaneExit) * PlaneUnit
       IN The({movePlanes(w1, i - 1, cfg, isPlaying) :
                 w1 \in {IF gone
                         THEN [w EXCEPT !.planePool = Swap(moved, i, w.planeActiveCount),
                                        !.planeActiveCount = w.planeActiveCount - 1]
                         ELSE [w EXCEPT !.planePool = moved]}})

spawnPlane(w, cfg, t, rnd) ==
  IF w.planeActiveCount >= Len(w.planePool) THEN w
  ELSE [w EXCEPT !.planePool[w.planeActiveCount + 1] =
                    [x |-> IF rnd.dir > 0 THEN (-PlaneStart) * PlaneUnit
                           ELSE (cfg.width + PlaneStart) * PlaneUnit,
                     dir |-> rnd.dir],
                 !.planeActiveCount = w.planeActiveCount + 1,
                 !.nextPlaneTime = t + PlaneRespawn]

\* the ground decoration scrolls with the pipes
moveGround(bg, cfg) ==
  LET maxRight == bg.maxRightGroundDeco - cfg.pipeSpeed
      x == bg.groundDeco[1].x - cfg.pipeSpeed
  IN IF x < -DecoLeft
     THEN [groundDeco |-> <<[x |-> maxRight + DecoGap]>>, maxRightGroundDeco |-> maxRight + DecoGap]
     ELSE [groundDeco |-> <<[x |-> x]>>, maxRightGroundDeco |-> maxRight]

updateBackground(w, cfg, t, isPlaying, rnd) ==
  The({IF ~isPlaying THEN w2 ELSE [w2 EXCEPT !.bgLayers = moveGround(w2.bgLayers, cfg)] :
         w2 \in {The({IF t > w1.nextPlaneTime /\ w1.planeActiveCount < MaxPlanes
                      THEN spawnPlane(w1, cfg, t, rnd) ELSE w1 :
                        w1 \in {movePlanes(w, w.planeActiveCount, cfg, isPlaying)}})}})

\* faulty variant: the physics keep running while the picker is open
isFrozen_notPaused(s) == s = "idle" \/ s = "dead"

\* the states in which update() returns before the physics
isFrozen(s) == s = "idle" \/ s = "dead" \/ s = "paused"

\* gravity, terminal velocity, integration and the ceiling clamp
birdStep(b, cfg) ==
  LET vy1 == b.vy + cfg.gravity
      vy2 == IF vy1 > cfg.terminalVel THEN cfg.terminalVel ELSE vy1
      y1 == b.y + vy2
  IN IF y1 < 0 THEN [y |-> 0, vy |-> 0] ELSE [y |-> y1, vy |-> vy2]

\* faulty variant: the height of the bird is left out
hitsGround_noSize(b, cfg) == b.y > cfg.height - cfg.groundH

hitsGround(b, cfg) == b.y + cfg.birdSize > cfg.height - cfg.groundH

\* top of the gap of a spawned pipe
randomTopH(cfg, rnd) ==
  LET minTop == MinTopMargin
      maxTop == cfg.height - cfg.groundH - cfg.pipeGap - MinTopMargin
  IN minTop + (rnd.top * (maxTop - minTop)) \div RandScale

\* faulty variant: a spawn that is due restarts the spawn timer although the
\* pool is full
spawnPipe_timerOnly(w, cfg, t, rnd) ==
  IF t - w.lastPipeTime > cfg.pipeSpawn
  THEN IF w.pipeActiveCount < Len(w.pipePool)
       THEN [w EXCEPT !.pipePool[w.pipeActiveCount + 1] =
                         [@ EXCEPT !.x = cfg.width, !.topH = randomTopH(cfg, rnd),
                                   !.scored = FALSE],
                      !.pipeActiveCount = w.pipeActiveCount + 1,
                      !.lastPipeTime = t]
       ELSE [w EXCEPT !.lastPipeTime = t]
  ELSE w

spawnPipe(w, cfg, t, rnd) ==
  IF t - w.lastPipeTime > cfg.pipeSpawn /\ w.pipeActiveCount < Len(w.pipePool)
  THEN [w EXCEPT !.pipePool[w.pipeActiveCount + 1] =
                    [@ EXCEPT !.x = cfg.width, !.topH = randomTopH(cfg, rnd),
                              !.scored = FALSE],
                 !.pipeActiveCount = w.pipeActiveCount + 1,
                 !.lastPipeTime = t]
  ELSE w

offScreen(p, cfg) == p.x + cfg.pipeWidth < 0

\* faulty variant: the scored flag is not consulted
scoresNow_noFlag(p, cfg) == p.x + cfg.pipeWidth < cfg.birdX

scoresNow(p, cfg) == ~p.scored /\ p.x + cfg.pipeWidth < cfg.birdX

\* faulty variant: the box of the bird is not shrunk
collides_noPad(p, b, cfg) ==
  LET bx == cfg.birdX
      by == b.y
      bs == cfg.birdSize
  IN /\ bx + bs > p.x /\ bx < p.x + cfg.pipeWidth
     /\ (by < p.topH \/ by + bs > p.topH + cfg.pipeGap)

collides(p, b, cfg) ==
  LET pad == cfg.hitboxPad
      bx == cfg.birdX + pad
      by == b.y + pad
      bs == cfg.birdSize - pad * 2
  IN /\ bx + bs > p.x /\ bx < p.x + cfg.pipeWidth
     /\ (by < p.topH \/ by + bs > p.topH + cfg.pipeGap)

\* faulty variant: an obstacle that left the screen is not swapped with the
\* last active one before the count is decremented
RECURSIVE movePipes_noSwap(_, _, _, _, _)
movePipes_noSwap(w, i, cfg, diff, t) ==
  IF i < 1 THEN w
  ELSE LET p == [w.pipePool[i] EXCEPT !.x = @ - cfg.pipeSpeed]
           moved == [w.pipePool EXCEPT ![i] = p]
       IN IF offScreen(p, cfg)
          THEN The({movePipes_noSwap(w1, i - 1, cfg, diff, t) :
                      w1 \in {[w EXCEPT !.pipePool = moved,
                                        !.pipeActiveCount = w.pipeActiveCount - 1]}})
          ELSE The({IF collides(p, w1.bird, cfg) THEN die(w1, diff, t)
                    ELSE movePipes_noSwap(w1, i - 1, cfg, diff, t) :
                      w1 \in {IF scoresNow(p, cfg)
                              THEN [w EXCEPT !.pipePool = [moved EXCEPT ![i].scored = TRUE],
                                             !.score = w.score + 1]
                              ELSE [w EXCEPT !.pipePool = moved]}})

\* the loop over the active pipes, from slot i down to the first
RECURSIVE movePipes(_, _, _, _, _)
movePipes(w, i, cfg, diff, t) ==
  IF i < 1 THEN w
  ELSE LET p == [w.pipePool[i] EXCEPT !.x = @ - cfg.pipeSpeed]
           moved == [w.pipePool EXCEPT ![i] = p]
       IN IF offScreen(p, cfg)
          THEN The({movePipes(w1, i - 1, cfg, diff, t) :
                      w1 \in {[w EXCEPT !.pipePool = Swap(moved, i, w.pipeActiveCount),
                                        !.pipeActiveCount = w.pipeActiveCount - 1]}})
          ELSE The({IF collides(p, w1.bird, cfg) THEN die(w1, diff, t)
                    ELSE movePipes(w1, i - 1, cfg, diff, t) :
                      w1 \in {IF scoresNow(p, cfg)
                              THEN [w EXCEPT !.pipePool = [moved EXCEPT ![i].scored = TRUE],
                                             !.score = w.score + 1]
                              ELSE [w EXCEPT !.pipePool = moved]}})

update(w, cfg, diff, t, rnd) ==
  The({IF isFrozen(w.state) THEN w2
       ELSE The({IF hitsGround(w3.bird, cfg) THEN die(w3, diff, t)
                 ELSE The({movePipes(w4, w4.pipeActiveCount, cfg, diff, t) :
                             w4 \in {spawnPipe(w3, cfg, t, rnd)}}) :
                   w3 \in {[w2 EXCEPT !.bird = birdStep(w2.bird, cfg)]}}) :
         w2 \in {The({updateBackground(w1, cfg, t, w.state = "play", rnd) :
                        w1 \in {[w EXCEPT !.clouds = moveClouds(w.clouds, cfg)]}})}})

\* ------------------------------------------------------------------------
\* loop(rafTimestamp): the fixed-timestep accumulator
\* ------------------------------------------------------------------------
\* faulty variant: the time left at the cap stays in the accumulator
RECURSIVE drain_noDiscard(_, _, _, _, _, _, _, _)
drain_noDiscard(w, acc, ticks, trail, cfg, diff, t, rnd) ==
  IF acc >= TICK_MS /\ ticks < MAX_TICKS
  THEN The({drain_noDiscard(w1, acc - TICK_MS, ticks + 1, Append(trail, w1.bird), cfg, diff,
                            t, rnd) :
              w1 \in {update(w, cfg, diff, t, rnd)}})
  ELSE [w |-> w, accumulator |-> acc, ticks |-> ticks, trail |-> trail]

\* the while loop of loop(); trail lists the bird after each tick
RECURSIVE drain(_, _, _, _, _, _, _, _)
drain(w, acc, ticks, trail, cfg, diff, t, rnd) ==
  IF acc >= TICK_MS /\ ticks < MAX_TICKS
  THEN The({drain(w1, acc - TICK_MS, ticks + 1, Append(trail, w1.bird), cfg, diff, t, rnd) :
              w1 \in {update(w, cfg, diff, t, rnd)}})
  ELSE [w |-> w, accumulator |-> IF ticks >= MAX_TICKS THEN 0 ELSE acc,
        ticks |-> ticks, trail |-> trail]

loop(w, ft, acc, cfg, diff, t, rnd) ==
  The({[w |-> r.w, frameTime |-> t, accumulator |-> r.accumulator,
        ticks |-> r.ticks, trail |-> r.trail] :
         r \in {drain(w, acc + (t - ft), 0, <<>>, cfg, diff, t, rnd)}})

\* ------------------------------------------------------------------------
\* The difficulty picker
\* ------------------------------------------------------------------------
\* CFG after applyDifficulty(key)
applyDifficulty(cfg, key) ==
  IF key \in DiffKeySet
  THEN [f \in DOMAIN cfg |-> IF f \in PresetFields THEN DIFFICULTY[key][f] ELSE cfg[f]]
  ELSE cfg

\* ------------------------------------------------------------------------
\* Initial state of the game: the script has run and init() has loaded the
\* best scores
\* ------------------------------------------------------------------------
InitGameFrom(bests, olds, diffs) ==
  /\ \E b \in bests, o \in olds :
       LET r == loadBestScores(b, o)
       IN /\ bestScores = r.scores
          /\ bestStore = r.best
          /\ oldBestStore = r.old
  /\ diffStore \in diffs
  /\ currentDifficulty = IF diffStore.has /\ diffStore.key # "" THEN diffStore.key ELSE "normal"
  /\ CFG = InitCFG
  /\ gameOpen = FALSE
  /\ animating = FALSE
  /\ heartAnim = "none"
  /\ overlayBuilt = FALSE
  /\ overlayVisible = FALSE
  /\ keydownBound = FALSE
  /\ canvasBound = FALSE
  /\ closeTimers = 0
  /\ awaitingHeart = 0
  /\ gameRaf = [i \in 1..MaxGameRaf |-> "none"]
  /\ rafId = 0
  /\ loadingRafId = 0
  /\ now = 0
  /\ state = "undefined"
  /\ hasPlayedOnce = FALSE
  /\ settingsOpen = FALSE
  /\ prevStateBeforePause = "null"
  /\ bird = [y |-> 0, vy |-> 0]
  /\ pipePool = <<>>
  /\ pipeActiveCount = 0
  /\ score = 0
  /\ lastPipeTime = 0
  /\ deadTime = 0
  /\ frameTime = 0
  /\ accumulator = 0
  /\ pausedTime = 0
  /\ clouds = <<>>
  /\ planePool = <<>>
  /\ planeActiveCount = 0
  /\ nextPlaneTime = 0
  /\ bgLayers = [groundDeco |-> <<>>, maxRightGroundDeco |-> 0]

InitGame == InitGameFrom(BestItems, OldItems, DiffItems)

\* ------------------------------------------------------------------------
\* The click sequence on the heart
\* ------------------------------------------------------------------------
onHeartClick ==
  /\ IF gameOpen \/ animating
     THEN UNCHANGED <<animating, heartAnim>>
     ELSE /\ animating' = TRUE
          /\ heartAnim' = "small"
  /\ UNCHANGED <<gameOpen, overlayBuilt, overlayVisible, keydownBound, canvasBound,
                 closeTimers, awaitingHeart, gameRaf, rafId, loadingRafId, now>>
  /\ UNCHANGED <<engine, settings, records, physics, timing, scenery, wvars, hvars>>

\* anim.onfinish of the small jump and of the large jump
JumpFinish ==
  /\ heartAnim \in {"small", "large"}
  /\ heartAnim' = IF heartAnim = "small" THEN "large" ELSE "launch"
  /\ animating' = TRUE
  /\ UNCHANGED <<gameOpen, overlayBuilt, overlayVisible, keydownBound, canvasBound,
                 closeTimers, awaitingHeart, gameRaf, rafId, loadingRafId, now>>
  /\ UNCHANGED <<engine, settings, records, physics, timing, scenery, wvars, hvars>>

\* anim.onfinish of launchSequence: openGame(), and startGame() up to its await.
\* The jumps and the launch last 2600 ms, the close timer 300 ms: no close
\* timer is left when the launch finishes.
LaunchFinish ==
  /\ heartAnim = "launch"
  /\ closeTimers = 0
  /\ awaitingHeart < MaxAwait
  /\ GameFreeIds(gameRaf) # {}
  /\ heartAnim' = "none"
  /\ animating' = FALSE
  /\ gameOpen' = TRUE
  /\ overlayBuilt' = TRUE
  /\ overlayVisible' = TRUE
  /\ keydownBound' = TRUE
  /\ loadingRafId' = GameNewId(gameRaf)
  /\ gameRaf' = [gameRaf EXCEPT ![GameNewId(gameRaf)] = "loading"]
  /\ awaitingHeart' = awaitingHeart + 1
  /\ UNCHANGED <<canvasBound, closeTimers, rafId, now>>
  /\ UNCHANGED <<engine, settings, records, physics, timing, scenery, wvars, hvars>>

\* gameRaf after stopLoadingScreen()
stopLoadingScreen(raf, id) == IF id # 0 THEN [raf EXCEPT ![id] = "none"] ELSE raf

\* the world after the allocations of startGame() and resetGameState()
startedWorld(w, cfg) ==
  The({resetGameState(w1, cfg) :
         w1 \in {[w EXCEPT !.pipePool = NewPipePool, !.pipeActiveCount = 0,
                           !.bird = [y |-> 0, vy |-> 0], !.clouds = NewClouds,
                           !.bgLayers = NewBgLayers, !.planePool = NewPlanePool,
                           !.planeActiveCount = 0]}})

\* startGame() resumes after `await loadHeartImage`
HeartImageLoaded ==
  /\ awaitingHeart > 0
  /\ LET raf1 == stopLoadingScreen(gameRaf, loadingRafId)
     IN /\ GameFreeIds(raf1) # {}
        /\ rafId' = GameNewId(raf1)
        /\ gameRaf' = [raf1 EXCEPT ![GameNewId(raf1)] = "loop"]
  /\ awaitingHeart' = awaitingHeart - 1
  /\ loadingRafId' = 0
  /\ CFG' = applyDifficulty(CFG, currentDifficulty)
  /\ diffStore' = IF currentDifficulty \in DiffKeySet THEN DiffItem(currentDifficulty)
                  ELSE diffStore
  /\ \E w \in {startedWorld(World, applyDifficulty(CFG, currentDifficulty))} : SetWorld(w)
  /\ canvasBound' = TRUE
  /\ frameTime' = now
  /\ accumulator' = 0
  /\ UNCHANGED <<gameOpen, animating, heartAnim, overlayBuilt, overlayVisible, keydownBound,
                 closeTimers, now>>
  /\ UNCHANGED <<hasPlayedOnce, settingsOpen, prevStateBeforePause, currentDifficulty>>
  /\ UNCHANGED <<oldBestStore, pausedTime, wvars, hvars>>

\* drawLoadingScreen(t) as animation-frame callback
LoadingFrame ==
  /\ now < MaxNow
  /\ \E id \in DOMAIN gameRaf :
       /\ gameRaf[id] = "loading"
       /\ LET raf1 == [gameRaf EXCEPT ![id] = "none"]
          IN /\ loadingRafId' = GameNewId(raf1)
             /\ gameRaf' = [raf1 EXCEPT ![GameNewId(raf1)] = "loading"]
  /\ now' = now + 1
  /\ UNCHANGED <<gameOpen, animating, heartAnim, overlayBuilt, overlayVisible, keydownBound,
                 canvasBound, closeTimers, awaitingHeart, rafId>>
  /\ UNCHANGED <<engine, settings, records, physics, timing, scenery, wvars, hvars>>

\* the model stops the clock at MaxNow while no run was started, at MaxPlayNow after
TimeLimit == IF hasPlayedOnce THEN MaxPlayNow ELSE MaxNow

\* loop(rafTimestamp) as animation-frame callback, d after the last frame
LoopFrame ==
  /\ \E d \in FrameDeltas, rnd \in Randoms, id \in DOMAIN gameRaf :
       /\ now + d <= TimeLimit
       /\ gameRaf[id] = "loop"
       /\ \E r \in {loop(World, frameTime, accumulator, CFG, currentDifficulty, now + d, rnd)} :
            /\ SetWorld(r.w)
            /\ frameTime' = r.frameTime
            /\ accumulator' = r.accumulator
       /\ LET raf1 == [gameRaf EXCEPT ![id] = "none"]
          IN /\ rafId' = GameNewId(raf1)
             /\ gameRaf' = [raf1 EXCEPT ![GameNewId(raf1)] = "loop"]
       /\ now' = now + d
  /\ UNCHANGED <<gameOpen, animating, heartAnim, overlayBuilt, overlayVisible, keydownBound,
                 canvasBound, closeTimers, awaitingHeart, loadingRafId>>
  /\ UNCHANGED <<hasPlayedOnce, settingsOpen, prevStateBeforePause>>
  /\ UNCHANGED <<settings, oldBestStore, pausedTime, wvars, hvars>>

\* gameRaf after stopGame()
stopGame(raf, id) == IF id # 0 THEN [raf EXCEPT ![id] = "none"] ELSE raf

\* closeGame(), from the close button, the backdrop or the Escape key
closeGame ==
  /\ overlayBuilt
  /\ closeTimers < MaxCloseTimers
  /\ gameRaf' = stopGame(gameRaf, rafId)
  /\ rafId' = 0
  /\ canvasBound' = FALSE
  /\ settingsOpen' = FALSE
  /\ prevStateBeforePause' = "null"
  /\ hasPlayedOnce' = FALSE
  /\ overlayVisible' = FALSE
  /\ closeTimers' = closeTimers + 1
  /\ keydownBound' = FALSE
  /\ UNCHANGED <<gameOpen, animating, heartAnim, overlayBuilt, awaitingHeart, loadingRafId,
                 now, state>>
  /\ UNCHANGED <<settings, records, physics, timing, scenery, wvars, hvars>>

\* the 300 ms timer of closeGame fires
CloseTimerFire ==
  /\ closeTimers > 0
  /\ closeTimers' = closeTimers - 1
  /\ overlayBuilt' = FALSE
  /\ gameOpen' = FALSE
  /\ UNCHANGED <<animating, heartAnim, overlayVisible, keydownBound, canvasBound,
                 awaitingHeart, gameRaf, rafId, loadingRafId, now>>
  /\ UNCHANGED <<engine, settings, records, physics, timing, scenery, wvars, hvars>>

NextGame ==
  \/ onHeartClick
  \/ JumpFinish
  \/ LaunchFinish
  \/ HeartImageLoaded
  \/ LoadingFrame
  \/ LoopFrame
  \/ closeGame
  \/ CloseTimerFire

\* ------------------------------------------------------------------------
\* Input of a running game: flap, the difficulty picker
\* ------------------------------------------------------------------------
\* flap() called by a handler
flapCall ==
  /\ \E w \in {flap(World, CFG, now)} : SetWorld(w)
  /\ hasPlayedOnce' = (hasPlayedOnce \/ state = "idle")
  /\ UNCHANGED <<lifecycle, settingsOpen, prevStateBeforePause, settings, oldBestStore,
                 timing, wvars, hvars>>

\* onCanvasClick / onCanvasTouchStart: a tap that is not for the picker
onCanvasClickFlap == canvasBound /\ ~settingsOpen /\ flapCall

\* onKeyDown: Space or Enter
onKeyDownFlap == keydownBound /\ flapCall

openDiffPicker ==
  /\ IF state = "play"
     THEN /\ prevStateBeforePause' = "play"
          /\ pausedTime' = now
          /\ state' = "paused"
     ELSE /\ prevStateBeforePause' = state
          /\ UNCHANGED <<pausedTime, state>>
  /\ settingsOpen' = TRUE
  /\ UNCHANGED <<lastPipeTime, frameTime, accumulator>>

\* faulty variant: the pause is not added to the spawn timer
closeDiffPicker_noCompensation ==
  /\ settingsOpen' = FALSE
  /\ IF state = "paused" /\ prevStateBeforePause = "play"
     THEN /\ frameTime' = now
          /\ accumulator' = 0
          /\ state' = "play"
          /\ UNCHANGED lastPipeTime
     ELSE UNCHANGED <<lastPipeTime, frameTime, accumulator, state>>
  /\ prevStateBeforePause' = "null"
  /\ UNCHANGED pausedTime

closeDiffPicker ==
  /\ settingsOpen' = FALSE
  /\ IF state = "paused" /\ prevStateBeforePause = "play"
     THEN /\ lastPipeTime' = lastPipeTime + (now - pausedTime)
          /\ frameTime' = now
          /\ accumulator' = 0
          /\ state' = "play"
     ELSE UNCHANGED <<lastPipeTime, frameTime, accumulator, state>>
  /\ prevStateBeforePause' = "null"
  /\ UNCHANGED pausedTime

\* what openDiffPicker() and closeDiffPicker() leave alone
pickerRest == <<lifecycle, hasPlayedOnce, settings, records, bird, pipePool, pipeActiveCount,
                score, deadTime, scenery, wvars, hvars>>

\* onCanvasClick on the settings heart
onCanvasClickSettings ==
  /\ canvasBound
  /\ ~settingsOpen
  /\ state # "idle"
  /\ openDiffPicker
  /\ UNCHANGED pickerRest

\* the header badge is displayed once a run was started
headerDiffShown == hasPlayedOnce \/ state \notin {"idle", "undefined"}

onHeaderDiffClick ==
  /\ overlayBuilt
  /\ headerDiffShown
  /\ IF state = "idle" /\ ~hasPlayedOnce
     THEN UNCHANGED <<state, settingsOpen, prevStateBeforePause, lastPipeTime, timing>>
     ELSE IF settingsOpen THEN closeDiffPicker ELSE openDiffPicker
  /\ UNCHANGED pickerRest

\* a tap outside the buttons of the open picker, or the Escape key
dismissDiffPicker ==
  /\ settingsOpen
  /\ canvasBound \/ keydownBound
  /\ closeDiffPicker
  /\ UNCHANGED pickerRest

changeDifficulty(key) ==
  IF key = currentDifficulty
  THEN /\ closeDiffPicker
       /\ UNCHANGED <<settings, bestScores, bestStore, bird, pipePool, pipeActiveCount,
                      score, deadTime, scenery>>
  ELSE /\ currentDifficulty' = key
       /\ CFG' = applyDifficulty(CFG, key)
       /\ diffStore' = DiffItem(key)
       /\ \E w \in {resetGameState(World, applyDifficulty(CFG, key))} : SetWorld(w)
       /\ settingsOpen' = FALSE
       /\ prevStateBeforePause' = "null"
       /\ UNCHANGED timing

\* a tap on a button of the open picker
onCanvasClickPicker ==
  /\ canvasBound
  /\ settingsOpen
  /\ \E key \in DiffKeySet : changeDifficulty(key)
  /\ UNCHANGED <<lifecycle, hasPlayedOnce, oldBestStore, wvars, hvars>>

NextPlay ==
  \/ LoopFrame
  \/ onCanvasClickFlap
  \/ onKeyDownFlap
  \/ onCanvasClickSettings
  \/ onHeaderDiffClick
  \/ dismissDiffPicker
  \/ onCanvasClickPicker
  \/ closeGame
  \/ CloseTimerFire

NextWheel ==
  \/ FetchResolve
  \/ FetchFail
  \/ SpinClick
  \/ CloseOverlayClick
  \/ closeOverlayAndSpin
  \/ SpinTimerFire
  \/ AnimateFrame
  \/ GlowFrame
  \/ ClearHistoryClick

InitGameAtRest == InitGameFrom({NoBest}, {NoOld}, {NoDiff})
InitWheelAtRest == InitWheelFrom({NoItem})

\* ------------------------------------------------------------------------
\* The functions checked on their own: no case is drawn, no run is started
\* ------------------------------------------------------------------------
NoEase == [tok |-> TOKENS, t |-> 0, done |-> FALSE, value |-> 0]
NoRun == [w |-> [state |-> "undefined"], diff |-> "normal", frameTime |-> 0,
          accumulator |-> 0, ticks |-> 0, trail |-> <<>>]

InitHarnessAtRest ==
  /\ easeCase = NoEase
  /\ runA = NoRun
  /\ runB = NoRun

\* the wheel page, for every stored history
Init == InitWheel /\ InitGameAtRest /\ InitHarnessAtRest

Spec == Init /\ [][NextWheel]_vars

\* animation frames of a running spin keep firing
FairSpec == Init /\ [][NextWheel]_vars /\ WF_vars(AnimateFrame)

\* the game, for every stored best-score map and difficulty preference
InitGamePage == InitWheelAtRest /\ InitGame /\ InitHarnessAtRest

SpecGame == InitGamePage /\ [][NextGame]_vars

\* ------------------------------------------------------------------------
\* The game after its first opening: startGame() has finished, the loop is
\* scheduled, the handlers of the canvas are bound
\* ------------------------------------------------------------------------
PlayBestItems == {NoBest}

UndefinedWorld(r) ==
  [state |-> "undefined", bird |-> [y |-> 0, vy |-> 0], pipePool |-> <<>>,
   pipeActiveCount |-> 0, score |-> 0, lastPipeTime |-> 0, deadTime |-> 0,
   bestScores |-> r.scores, bestStore |-> r.best,
   clouds |-> <<>>, planePool |-> <<>>, planeActiveCount |-> 0, nextPlaneTime |-> 0,
   bgLayers |-> [groundDeco |-> <<>>, maxRightGroundDeco |-> 0]]

InitPlayFrom(t0, bests) ==
  /\ \E r \in {loadBestScores(b, NoOld) : b \in bests} :
     \E w \in {startedWorld(UndefinedWorld(r), applyDifficulty(InitCFG, "normal"))} :
          /\ bestScores = w.bestScores
          /\ bestStore = w.bestStore
          /\ oldBestStore = r.old
          /\ state = w.state
          /\ bird = w.bird
          /\ pipePool = w.pipePool
          /\ pipeActiveCount = w.pipeActiveCount
          /\ score = w.score
          /\ lastPipeTime = w.lastPipeTime
          /\ deadTime = w.deadTime
          /\ clouds = w.clouds
          /\ planePool = w.planePool
          /\ planeActiveCount = w.planeActiveCount
          /\ nextPlaneTime = w.nextPlaneTime
          /\ bgLayers = w.bgLayers
  /\ diffStore = DiffItem("normal")
  /\ currentDifficulty = "normal"
  /\ CFG = applyDifficulty(InitCFG, "normal")
  /\ gameOpen = TRUE
  /\ animating = FALSE
  /\ heartAnim = "none"
  /\ overlayBuilt = TRUE
  /\ overlayVisible = TRUE
  /\ keydownBound = TRUE
  /\ canvasBound = TRUE
  /\ closeTimers = 0
  /\ awaitingHeart = 0
  /\ gameRaf = [i \in 1..MaxGameRaf |-> IF i = 1 THEN "loop" ELSE "none"]
  /\ rafId = 1
  /\ loadingRafId = 0
  /\ now = t0
  /\ hasPlayedOnce = FALSE
  /\ settingsOpen = FALSE
  /\ prevStateBeforePause = "null"
  /\ frameTime = t0
  /\ accumulator = 0
  /\ pausedTime = 0

InitPlayAt(t0) == InitPlayFrom(t0, PlayBestItems)

\* a session with every input of the open game
InitPlayPage == InitWheelAtRest /\ InitPlayAt(PlayStart) /\ InitHarnessAtRest

SpecPlay == InitPlayPage /\ [][NextPlay]_vars

\* runs played without the picker, from the opening of the game at time 0
NextRun ==
  \/ LoopFrame
  \/ onCanvasClickFlap
  \/ onKeyDownFlap

\* the best scores stored by earlier sessions: none, or one of normal difficulty
RunBestItems == {NoBest, BestItem(<<LBrace, KV("normal", "number", 2), RBrace>>)}

InitRunPage == InitWheelAtRest /\ InitPlayFrom(0, RunBestItems) /\ InitHarnessAtRest

SpecRun == InitRunPage /\ [][NextRun]_vars

\* ------------------------------------------------------------------------
\* easeOutExpoWobble for every configuration of the easing tokens
\* ------------------------------------------------------------------------
EaseTokens == [easeDecayRate : 1..EaseDecayRate,
               wobbleThreshold : {-1, 0, WobbleThreshold, SpinDuration},
               wobbleFrequency : {WobbleFrequency, WobbleFrequency + 1},
               wobbleGain : {0, WobbleGain}]

InitEase ==
  /\ InitWheelAtRest
  /\ InitGameAtRest
  /\ easeCase \in [tok : EaseTokens, t : 0..SpinDuration, done : {FALSE}, value : {0}]
  /\ runA = NoRun
  /\ runB = NoRun

EaseApply ==
  /\ ~easeCase.done
  /\ easeCase' = [easeCase EXCEPT !.done = TRUE,
                                  !.value = easeOutExpoWobbleWith(easeCase.tok, easeCase.t)]
  /\ UNCHANGED <<wvars, gvars, runA, runB>>

SpecEase == InitEase /\ [][EaseApply]_vars

\* ------------------------------------------------------------------------
\* Two runs of loop() from the same started run, with the same seed, under
\* two sequences of frame deltas
\* ------------------------------------------------------------------------
MaxTwinTime == 12
StallDelta == 10
TwinDeltas == FrameDeltas \cup {StallDelta}
Seed == [top |-> 0, dir |-> 1]

\* the run of difficulty key right after the first flap, at time 0
StartedRun(key) ==
  LET cfg == applyDifficulty(InitCFG, key)
  IN The({[w |-> flap(w, cfg, 0), diff |-> key, frameTime |-> 0, accumulator |-> 0,
           ticks |-> 0, trail |-> <<>>] :
            w \in {startedWorld(UndefinedWorld([scores |-> ZeroBest, best |-> NoBest]), cfg)}})

\* one frame of a run, d after its last frame
frameOf(run, d) ==
  The({[run EXCEPT !.w = r.w, !.frameTime = r.frameTime, !.accumulator = r.accumulator,
                   !.ticks = run.ticks + r.ticks, !.trail = run.trail \o r.trail] :
         r \in {loop(run.w, run.frameTime, run.accumulator,
                     applyDifficulty(InitCFG, run.diff), run.diff, run.frameTime + d, Seed)}})

InitTwin ==
  /\ InitWheelAtRest
  /\ InitGameAtRest
  /\ easeCase = NoEase
  /\ \E key \in DiffKeySet :
       /\ runA = StartedRun(key)
       /\ runB = StartedRun(key)

TwinFrameA ==
  /\ \E d \in TwinDeltas :
       /\ runA.frameTime + d <= MaxTwinTime
       /\ \E r \in {frameOf(runA, d)} : runA' = r
  /\ UNCHANGED <<wvars, gvars, easeCase, runB>>

TwinFrameB ==
  /\ \E d \in TwinDeltas :
       /\ runB.frameTime + d <= MaxTwinTime
       /\ \E r \in {frameOf(runB, d)} : runB' = r
  /\ UNCHANGED <<wvars, gvars, easeCase, runA>>

NextTwin == TwinFrameA \/ TwinFrameB

SpecTwin == InitTwin /\ [][NextTwin]_vars

\* ------------------------------------------------------------------------
\* Startup with a stored history that holds no name twice
\* ------------------------------------------------------------------------
NoDup(h) == \A i, j \in 1..Len(h) : i # j => h[i].name # h[j].name

UniqueItems == {it \in StoredItems : JSONparses(StoredText(it)) => NoDup(JSONparse(StoredText(it)))}

InitUnique == InitWheelFrom(UniqueItems) /\ InitGameAtRest /\ InitHarnessAtRest

SpecUnique == InitUnique /\ [][NextWheel]_vars

AnimateIds == {id \in DOMAIN wheelRaf : wheelRaf[id].fn = "animate"}
TickIds == {id \in DOMAIN wheelRaf : wheelRaf[id].fn = "tick"}
AllPicked == Len(names) > 0 /\ Len(getAvailable(names, spinHistory)) = 0
SpinCall == SpinClick \/ SpinTimerFire
LastRecord == spinHistory[Len(spinHistory)]

\* C1: with a duplicate-free startup history, the winner of a spin is absent
\* from the history when it is selected (and until the spin completes), and
\* the history never holds the same name twice.
C1_NoRepeat ==
  /\ NoDup(spinHistory)
  /\ \A id \in AnimateIds : ~isNamePicked(spinHistory, wheelRaf[id].winnerName)

C1_Witness ==
  /\ Len(spinHistory) >= 2
  /\ LastRecord.time \in TimeStrs
  /\ AnimateIds # {}

\* C2: with a loaded roster whose names are all in the history, spin() starts
\* no animation, leaves spinning false and rotation and history unchanged,
\* and leaves the all-picked notice shown and the spin button disabled.
C2_RefusesWhenExhausted ==
  [][(AllPicked /\ SpinCall) =>
       /\ wheelRaf' = wheelRaf
       /\ ~spinning /\ ~spinning'
       /\ rotation' = rotation
       /\ spinHistory' = spinHistory
       /\ wheelStore' = wheelStore
       /\ ~DOM'.allPickedHidden
       /\ DOM'.spinBtnDisabled]_vars

C2_Witness ==
  /\ AllPicked
  /\ LastRecord.time \in TimeStrs
  /\ ~spinning
  /\ spinTimers = 0
  /\ DOM.overlayHidden
  /\ ~DOM.allPickedHidden
  /\ DOM.spinBtnDisabled

\* C3: spin() during a running spin changes nothing of the wheel; there is
\* never more than one animate callback pending, and one is pending exactly
\* while spinning.
C3_ReentrantSpinIsNoOp ==
  /\ [](Cardinality(AnimateIds) <= 1 /\ (spinning <=> AnimateIds # {}))
  /\ [][(spinning /\ SpinCall) =>
          UNCHANGED <<names, slice, rotation, spinning, winnerIndex, glowAnimId,
                      spinHistory, wheelStore, wheelRaf, DOM>>]_vars

C3_Witness == spinning /\ ~DOM.spinBtnDisabled /\ AnimateIds # {}

\* C4: under fair animation frames a started spin with winner w completes:
\* spinning is false, the last history record names w, storage holds the
\* encoded history and w is displayed; the completing frame sets rotation to
\* the target and appends exactly one record.
C4_SpinCompletes ==
  /\ \A w \in {AllNames[i] : i \in 1..MaxRoster} :
       (\E id \in AnimateIds : wheelRaf[id].winnerName = w)
         ~> (/\ ~spinning
             /\ Len(spinHistory) > 0
             /\ LastRecord.name = w
             /\ wheelStore = Item(JSONstringify(spinHistory))
             /\ DOM.winnerName = w
             /\ ~DOM.overlayHidden)
  /\ [][\A id \in AnimateIds :
          (animate(id) /\ ~spinning') =>
             /\ rotation' = wheelRaf[id].target
             /\ winnerIndex' = wheelRaf[id].winnerIdx
             /\ Len(spinHistory') = Len(spinHistory) + 1
             /\ SubSeq(spinHistory', 1, Len(spinHistory)) = spinHistory
             /\ spinHistory'[Len(spinHistory')].name = wheelRaf[id].winnerName
             /\ JSONparses(wheelStore'.text)
             /\ JSONparse(wheelStore'.text) = spinHistory']_vars

C4_Witness ==
  /\ ~spinning
  /\ Len(spinHistory) > 0
  /\ LastRecord.time \in TimeStrs
  /\ rotation > 0
  /\ DOM.winnerName = LastRecord.name
  /\ ~DOM.overlayHidden

\* C7 as claimed: clearHistory() during a spin cancels the spin's pending
\* animation-frame callback.
C7_ClearCancelsSpin ==
  [][(clearHistory /\ spinning) => (\A id \in DOMAIN wheelRaf : wheelRaf'[id].fn # "animate")]_vars

\* C7 amended: clearHistory() cancels the pending glow callback only; after
\* it glowAnimId is null and no glow tick is pending, and a pending animate
\* callback of a running spin is left scheduled as it was.
C7_ClearCancelsGlowOnly ==
  [][clearHistory =>
       /\ glowAnimId' = 0
       /\ \A id \in DOMAIN wheelRaf : wheelRaf'[id].fn # "tick"
       /\ \A id \in AnimateIds : wheelRaf'[id] = wheelRaf[id]
       /\ spinning' = spinning]_vars

C7_Witness ==
  /\ spinning
  /\ AnimateIds # {}
  /\ TickIds = {}
  /\ spinHistory = <<>>
  /\ ~DOM.spinBtnDisabled

\* C8 as claimed: once the roster has loaded, every history record names a
\* member of the roster.
C8_HistoryWithinRoster ==
  fetchState = "done" =>
    \A i \in 1..Len(spinHistory) : \E j \in 1..Len(names) : names[j] = spinHistory[i].name

\* C10 as claimed: after a failed roster fetch the wheel has a non-empty
\* default roster and a slice angle.
C10_DefaultRoster == fetchState = "failed" => (Len(names) > 0 /\ slice > 0)

\* C5 as claimed: there is never more than one pending animation-frame
\* callback chain of the game.
C5_SingleGameLoop == Cardinality(PendingFrames) <= 1

\* C6 as claimed: while the game is closed (closeGame() has run and the game
\* has not been opened again) no game frame and no loading-screen frame runs.
C6_NoFrameAfterClose == [][~overlayVisible => ~(LoopFrame \/ LoadingFrame)]_vars

\* C9 as claimed: a missing or unparsable stored value is treated as empty
\* (empty history, every best score 0) and the widget still starts.
C9_CorruptStorageIsEmpty ==
  /\ (~wheelStore.has \/ ~JSONparses(wheelStore.text)) => (~scriptAborted /\ spinHistory = <<>>)
  /\ (~bestStore.has \/ ~BestParses(bestStore.text)) => bestScores = ZeroBest

\* C11 as claimed: with an empty roster (not loaded yet, or the load failed)
\* spin() changes no state variable of the wheel and nothing of the page: the
\* all-picked notice stays hidden and the spin button stays as it was.
C11_EmptyRosterSpinIsNoOp ==
  [][(Len(names) = 0 /\ SpinCall) =>
       UNCHANGED <<names, slice, rotation, spinning, winnerIndex, glowAnimId,
                   spinHistory, wheelStore, wheelRaf, DOM>>]_vars

\* C12: a tap on a picker button of another difficulty leaves the game idle
\* with score 0, no active obstacle and the picker closed, the physics
\* constants are those of the new preset, and the best scores, in memory and
\* stored, are what they were, whatever the score that is discarded.
C12_ChangeDifficultyResets ==
  [][(onCanvasClickPicker /\ currentDifficulty' # currentDifficulty) =>
       /\ state' = "idle"
       /\ score' = 0
       /\ pipeActiveCount' = 0
       /\ ~settingsOpen'
       /\ \A f \in PresetFields : CFG'[f] = DIFFICULTY[currentDifficulty'][f]
       /\ bestScores' = bestScores
       /\ bestStore' = bestStore]_vars

\* a run that had scored was discarded by a change of difficulty: an obstacle of
\* the pool still carries its scored flag and no best score was ever recorded
C12_Witness ==
  /\ state = "idle"
  /\ score = 0
  /\ pipeActiveCount = 0
  /\ ~settingsOpen
  /\ canvasBound
  /\ currentDifficulty # "normal"
  /\ bestScores = ZeroBest
  /\ \E i \in DOMAIN pipePool : pipePool[i].scored

\* C13 as claimed: in every reachable state of the game, state 'paused'
\* implies that the difficulty picker is open.
C13_PausedOnlyWithPicker == state = "paused" => settingsOpen

\* C14: in state paused, idle or dead, a tick of update() (at any frame time,
\* with any random draw) leaves the bird, the obstacle pool, the number of
\* active obstacles, the score, the spawn timer and the state as they are,
\* moves every cloud, moves every active plane at the ambient speed, and
\* leaves the ground layer where it was.
C14_FrozenTick ==
  (state \in {"paused", "idle", "dead"}) =>
    \A d \in FrameDeltas, rnd \in Randoms :
      \A w \in {update(World, CFG, currentDifficulty, now + d, rnd)} :
        /\ w.state = state
        /\ w.bird = bird
        /\ w.pipePool = pipePool
        /\ w.pipeActiveCount = pipeActiveCount
        /\ w.score = score
        /\ w.lastPipeTime = lastPipeTime
        /\ \A i \in DOMAIN clouds : w.clouds[i].x # clouds[i].x
        /\ \A i \in 1..planeActiveCount :
             \E j \in DOMAIN w.planePool :
               w.planePool[j].x =
                 planePool[i].x + planePool[i].dir * CFG.pipeSpeed * AmbientIdle
        /\ w.bgLayers = bgLayers

\* frames have run since the pause, with the bird in flight, an obstacle on its
\* way and a plane in the air
C14_Witness ==
  /\ state = "paused"
  /\ frameTime >= pausedTime + TICK_MS
  /\ bird.vy # 0
  /\ pipeActiveCount > 0
  /\ planeActiveCount > 0

\* delays between a resume and the first tick after it: the accumulator
\* restarts at 0, so that tick runs in the first frame TICK_MS or more later
ResumeTickDelays == TICK_MS..(TICK_MS + MaxGameDelta - 1)

\* the tick of update() at time t spawns an obstacle in world w
spawnsAt(w, cfg, diff, t, rnd) == update(w, cfg, diff, t, rnd).lastPipeTime = t

PipeObject(pool, id) == pool[CHOOSE i \in DOMAIN pool : pool[i].id = id]

\* the obstacle objects whose scored flag is down in pool p and up in pool q
NewlyScored(p, q) ==
  {id \in 1..PipePoolSize : ~PipeObject(p, id).scored /\ PipeObject(q, id).scored}

\* C16: a tick of update() in play (at any frame time, with any random draw)
\* adds one to the score for each obstacle object whose scored flag it raises
\* and nothing else, and leaves every active obstacle flagged as scored exactly
\* if its trailing edge is left of the bird's x, so that an obstacle is counted
\* on the first tick it has passed, once, also in a slot that was swapped or
\* reused; no step lowers the score, but the flap that starts a new run after a
\* death.
C16_ScoreOncePerObstacle ==
  /\ [](state = "play" =>
          \A d \in FrameDeltas, rnd \in Randoms :
            \A w \in {update(World, CFG, currentDifficulty, now + d, rnd)} :
              /\ w.score = score + Cardinality(NewlyScored(pipePool, w.pipePool))
              /\ \A i \in 1..w.pipeActiveCount :
                   w.pipePool[i].scored <=>
                     (w.pipePool[i].x + CFG.pipeWidth < CFG.birdX))
  /\ [][score' >= score \/ (state = "dead" /\ state' = "play" /\ score' = 0)]_vars

\* more obstacles were passed than the pool has objects, and one of them is
\* still on screen behind the bird
C16_Witness ==
  /\ state = "play"
  /\ score > PipePoolSize
  /\ \E i \in 1..pipeActiveCount : pipePool[i].scored

\* the box of bird b, shrunk by the hitbox padding on every side, overlaps the
\* horizontal extent of obstacle p and reaches above its gap or below it
shrunkBoxHits(p, b, cfg) ==
  LET left == cfg.birdX + cfg.hitboxPad
      right == cfg.birdX + cfg.birdSize - cfg.hitboxPad
      top == b.y + cfg.hitboxPad
      bottom == b.y + cfg.birdSize - cfg.hitboxPad
  IN /\ right > p.x
     /\ left < p.x + cfg.pipeWidth
     /\ (top < p.topH \/ bottom > p.topH + cfg.pipeGap)

\* C17: a tick of update() in play (at any frame time, with any random draw)
\* that does not end on the ground ends the run exactly if, with the bird and
\* the obstacles where the tick puts them, the shrunk box of the bird hits an
\* active obstacle.
C17_CollisionEndsRun ==
  (state = "play") =>
    \A d \in FrameDeltas, rnd \in Randoms :
      \A b \in {birdStep(bird, CFG)} :
        ~hitsGround(b, CFG) =>
          \A w0 \in {spawnPipe([World EXCEPT !.bird = b], CFG, now + d, rnd)} :
            \A w \in {update(World, CFG, currentDifficulty, now + d, rnd)} :
              (w.state = "dead") <=>
                \E i \in 1..w0.pipeActiveCount :
                  shrunkBoxHits([w0.pipePool[i] EXCEPT !.x = @ - CFG.pipeSpeed], b, CFG)

\* a run has ended on an obstacle, above the ground
C17_Witness ==
  /\ state = "dead"
  /\ ~hitsGround(bird, CFG)
  /\ \E i \in 1..pipeActiveCount : shrunkBoxHits(pipePool[i], bird, CFG)

\* C18 as claimed: two runs from the same start, with the same inputs and random
\* draws, that have been fed frame deltas of the same total have executed the
\* same number of ticks and produced the same bird after each tick.
C18_FrameRateIndependent ==
  (runA.frameTime = runB.frameTime) =>
    (runA.ticks = runB.ticks /\ runA.trail = runB.trail)

\* C19: the target rotation of every spin in progress puts the centre of the
\* winner's slice at the pointer: target plus the centre of the slice, reduced
\* modulo a full turn, is three quarters of a turn.
C19_TargetUnderPointer ==
  \A id \in AnimateIds :
    (wheelRaf[id].target + wheelRaf[id].winnerIdx * slice + slice \div 2) % TWO_PI
      = POINTER_ANGLE

\* a spin from a rotation that is no whole number of turns, to a slice other
\* than the first, with an extra full turn added
C19_Witness ==
  \E id \in AnimateIds :
    /\ wheelRaf[id].startRotation % TWO_PI # 0
    /\ wheelRaf[id].winnerIdx > 0
    /\ wheelRaf[id].totalDelta >= (SpinMinRotations + 1) * TWO_PI

\* C20 as claimed: for every configuration of the easing tokens,
\* easeOutExpoWobble returns exactly 0 at t = 0 and exactly 1 at t = 1.
C20_EaseEndpoints ==
  easeCase.done =>
    /\ easeCase.t = 0 => easeCase.value = 0
    /\ easeCase.t = SpinDuration => easeCase.value = EaseScale

\* C21: every step that changes the spin history leaves in storage a value
\* that decodes to the new history, record for record; such a step either
\* appends one record at the end or is clearHistory(); clearHistory() leaves
\* the history empty, the storage key removed, no winner index and no glow
\* callback.
C21_HistoryPersisted ==
  [][/\ (spinHistory' # spinHistory) =>
          /\ JSONparses(StoredText(wheelStore'))
          /\ JSONparse(StoredText(wheelStore')) = spinHistory'
          /\ \/ /\ Len(spinHistory') = Len(spinHistory) + 1
                /\ SubSeq(spinHistory', 1, Len(spinHistory)) = spinHistory
             \/ ClearHistoryClick
     /\ ClearHistoryClick =>
          /\ spinHistory' = <<>>
          /\ ~wheelStore'.has
          /\ JSONparse(StoredText(wheelStore')) = <<>>
          /\ winnerIndex' = -1
          /\ glowAnimId' = 0
          /\ \A id \in DOMAIN wheelRaf : wheelRaf'[id].fn # "tick"]_vars

\* a spin has completed, which appended its winner, and the history was
\* cleared afterwards
C21_Witness ==
  /\ rotation > 0
  /\ ~spinning
  /\ spinHistory = <<>>
  /\ wheelStore = NoItem
  /\ winnerIndex = -1
  /\ fetchState = "done"

\* the ticks a frame runs and the accumulator it leaves, from the accumulator
\* acc before the frame and the time d since the last frame
frameTicks(acc, d) == Min((acc + d) \div TICK_MS, MAX_TICKS)
frameRest(acc, d) == IF (acc + d) \div TICK_MS >= MAX_TICKS THEN 0 ELSE (acc + d) % TICK_MS

\* C22: a frame of loop(), whatever the time since the last frame, runs the
\* whole ticks its accumulated time holds but at most MAX_TICKS, and leaves an
\* accumulator of at least 0 and less than one tick: the remainder below the
\* cap, 0 at the cap, where the time left over is dropped.
C22_TicksCapped ==
  [][(runA'.frameTime # runA.frameTime) =>
       \A d \in {runA'.frameTime - runA.frameTime} :
         /\ runA'.ticks - runA.ticks = frameTicks(runA.accumulator, d)
         /\ runA'.ticks - runA.ticks <= MAX_TICKS
         /\ Len(runA'.trail) = runA'.ticks
         /\ runA'.accumulator = frameRest(runA.accumulator, d)
         /\ runA'.accumulator >= 0
         /\ runA'.accumulator < TICK_MS
         /\ (runA'.ticks - runA.ticks = MAX_TICKS) => runA'.accumulator = 0]_vars

\* a frame came after a stall: it ran MAX_TICKS ticks and time was dropped
C22_Witness ==
  /\ runA.ticks >= MAX_TICKS
  /\ runA.ticks * TICK_MS + runA.accumulator < runA.frameTime
  /\ runA.accumulator = 0

\* the obstacle objects in the first n slots of the pool
ActiveIds(pool, n) == {pool[i].id : i \in 1..n}

\* C23: the number of active obstacles is between 0 and the size of the pool;
\* a tick of update() in play that does not end on the ground (at any frame
\* time, with any random draw) spawns an obstacle, at the right edge, and
\* restarts the spawn timer exactly if the spawn interval has elapsed and the
\* pool has a free slot; with a full pool it activates no obstacle and leaves
\* the spawn timer as it is, so the spawn stays due.
C23_SpawnWaitsForSlot ==
  /\ pipeActiveCount >= 0
  /\ pipeActiveCount <= Len(pipePool)
  /\ state \in {"idle", "play", "paused", "dead"} => Len(pipePool) = PipePoolSize
  /\ state = "play" =>
       \A d \in FrameDeltas, rnd \in Randoms :
         ~hitsGround(birdStep(bird, CFG), CFG) =>
           \A w \in {update(World, CFG, currentDifficulty, now + d, rnd)} :
             IF (now + d) - lastPipeTime > CFG.pipeSpawn /\ pipeActiveCount < PipePoolSize
             THEN /\ w.lastPipeTime = now + d
                  /\ ActiveIds(w.pipePool, w.pipeActiveCount)
                       \ ActiveIds(pipePool, pipeActiveCount)
                         = {pipePool[pipeActiveCount + 1].id}
                  /\ PipeObject(w.pipePool, pipePool[pipeActiveCount + 1].id).x
                       = CFG.width - CFG.pipeSpeed
             ELSE /\ w.lastPipeTime = lastPipeTime
                  /\ ActiveIds(w.pipePool, w.pipeActiveCount)
                       \subseteq ActiveIds(pipePool, pipeActiveCount)
                  /\ w.pipeActiveCount <= pipeActiveCount

\* the pool is full and the spawn interval has elapsed: the last tick could
\* not spawn, and the next one cannot
C23_Witness ==
  /\ state = "play"
  /\ pipeActiveCount = PipePoolSize
  /\ now - lastPipeTime > CFG.pipeSpawn
  /\ ~hitsGround(birdStep(bird, CFG), CFG)

\* the birds of a run in progress: between the ceiling and the ground line,
\* no faster upwards than a flap, no faster downwards than the terminal velocity
BirdRange(cfg) ==
  [y : 0..(cfg.height - cfg.groundH - cfg.birdSize), vy : cfg.flapForce..cfg.terminalVel]

\* C24: in play the bird is within its range, and from any bird of that range
\* a tick of update() (at any frame time, with any random draw) that leaves
\* the state play leaves the velocity at most the terminal velocity, y at
\* least 0 and y + birdSize at most height - groundH; a tick that puts
\* y + birdSize beyond that line sets the state to dead at once: the obstacle
\* pool, the number of active obstacles, the score and the spawn timer are
\* what they were.
C24_BirdWithinBounds ==
  state = "play" =>
    /\ bird \in BirdRange(CFG)
    /\ \A b \in BirdRange(CFG), d \in FrameDeltas, rnd \in Randoms :
         \A w \in {update([World EXCEPT !.bird = b], CFG, currentDifficulty, now + d, rnd)} :
           /\ w.state = "play" =>
                /\ w.bird.vy <= CFG.terminalVel
                /\ w.bird.y >= 0
                /\ w.bird.y + CFG.birdSize <= CFG.height - CFG.groundH
                /\ w.bird \in BirdRange(CFG)
           /\ \A vy \in {Min(b.vy + CFG.gravity, CFG.terminalVel)} :
                (Max(b.y + vy, 0) + CFG.birdSize > CFG.height - CFG.groundH) =>
                  /\ w.state = "dead"
                  /\ w.deadTime = now + d
                  /\ w.bird = [y |-> Max(b.y + vy, 0), vy |-> vy]
                  /\ w.pipePool = pipePool
                  /\ w.pipeActiveCount = pipeActiveCount
                  /\ w.score = score
                  /\ w.lastPipeTime = lastPipeTime

\* a run has ended on the ground while an obstacle was on its way
C24_Witness ==
  /\ state = "dead"
  /\ bird.y + CFG.birdSize > CFG.height - CFG.groundH
  /\ bird.vy = CFG.terminalVel
  /\ pipeActiveCount > 0
  /\ deadTime = now

\* C25 as claimed: whenever the difficulty picker is open the game state is
\* not play.
C25_NoPlayUnderPicker == settingsOpen => state # "play"

FlapInput == onCanvasClickFlap \/ onKeyDownFlap

\* C26: in state dead, flap() more than resetDelay after the death leaves the
\* state play, the score 0, no active obstacle, the bird at the start height
\* with the flap velocity and the spawn timer at the time of the flap, and
\* leaves the best scores alone; flap() at or before resetDelay changes
\* nothing. The state goes from dead to play by a flap input only, and never
\* before resetDelay has passed.
C26_RestartAfterDelay ==
  /\ [](state = "dead" =>
          \A w \in {flap(World, CFG, now)} :
            IF now - deadTime > CFG.resetDelay
            THEN /\ w.state = "play"
                 /\ w.score = 0
                 /\ w.pipeActiveCount = 0
                 /\ w.bird = [y |-> CFG.height \div 2 - StartLift, vy |-> CFG.flapForce]
                 /\ w.lastPipeTime = now
                 /\ w.bestScores = bestScores
                 /\ w.bestStore = bestStore
            ELSE w = World)
  /\ [][(state = "dead" /\ state' = "play") =>
          /\ FlapInput
          /\ now - deadTime > CFG.resetDelay
          /\ score' = 0
          /\ pipeActiveCount' = 0
          /\ lastPipeTime' = now]_vars

\* a second run has just started: the pool still holds an obstacle of the
\* first run, which ended before with a score
C26_Witness ==
  /\ state = "play"
  /\ score = 0
  /\ pipeActiveCount = 0
  /\ lastPipeTime = now
  /\ now > CFG.resetDelay
  /\ bird = [y |-> CFG.height \div 2 - StartLift, vy |-> CFG.flapForce]
  /\ \E i \in DOMAIN pipePool : pipePool[i].scored
  /\ bestScores[currentDifficulty] > 0

C28_DifficultyIsPreset ==
  (\E id \in DOMAIN gameRaf : gameRaf[id] = "loop") =>
    /\ currentDifficulty \in DiffKeySet
    /\ \A f \in PresetFields : CFG[f] = DIFFICULTY[currentDifficulty][f]

\* C29 as claimed: the spin button is disabled in every state in which a spin
\* is in progress.
C29_ButtonDisabledWhileSpinning == spinning => DOM.spinBtnDisabled

\* the obstacle objects active when the obstacle loop of a tick at time t
\* starts: the active ones and the one the tick has just spawned
LoopStartIds(t) ==
  ActiveIds(pipePool, pipeActiveCount)
    \cup (IF t - lastPipeTime > CFG.pipeSpawn /\ pipeActiveCount < PipePoolSize
          THEN {pipePool[pipeActiveCount + 1].id} ELSE {})

\* where such an object is when the loop starts
LoopStartX(id) ==
  IF id \in ActiveIds(pipePool, pipeActiveCount) THEN PipeObject(pipePool, id).x ELSE CFG.width

\* C30: after a tick of update() in play that ends in play (at any frame
\* time, with any random draw), every obstacle object that was active when
\* the obstacle loop started is pipeSpeed further left, once, whether it left
\* the screen or was swapped into another slot, and every other object is
\* where it was; the first pipeActiveCount slots hold exactly the objects
\* that are still on screen, and the pool holds the same distinct objects.
C30_EachObstacleMovedOnce ==
  state = "play" =>
    \A d \in FrameDeltas, rnd \in Randoms :
      \A w \in {update(World, CFG, currentDifficulty, now + d, rnd)} :
        w.state = "play" =>
          /\ \A id \in LoopStartIds(now + d) :
               PipeObject(w.pipePool, id).x = LoopStartX(id) - CFG.pipeSpeed
          /\ \A id \in (1..PipePoolSize) \ LoopStartIds(now + d) :
               PipeObject(w.pipePool, id).x = PipeObject(pipePool, id).x
          /\ ActiveIds(w.pipePool, w.pipeActiveCount) =
               {id \in LoopStartIds(now + d) :
                  LoopStartX(id) - CFG.pipeSpeed + CFG.pipeWidth >= 0}
          /\ w.pipeActiveCount = Cardinality(ActiveIds(w.pipePool, w.pipeActiveCount))
          /\ Len(w.pipePool) = PipePoolSize
          /\ {w.pipePool[i].id : i \in DOMAIN w.pipePool} = 1..PipePoolSize

\* an obstacle left the screen while a younger one was active: the two objects
\* have changed slots, and the younger one is active in the first slot
C30_Witness ==
  /\ state = "play"
  /\ pipeActiveCount = 1
  /\ pipePool[1].id # 1
  /\ pipePool[2].x + CFG.pipeWidth < 0

====
